---- MODULE Spec2Model ----
(***************************************************************************)
(* supervisordkratos: ProgramConfig / GroupConfig builders and the two     *)
(* renderers GenerateProgramConfig and GenerateGroupConfig.                *)
(*                                                                         *)
(* A Go string is a sequence of chunks; a chunk is an indivisible piece of *)
(* text written as a TLA+ string.  The empty string is <<>>.  The chunks   *)
(* "\n", " ", "/", "." and ".." stand for themselves; no other chunk       *)
(* holds a line terminator, a path separator or white space at its ends.   *)
(* Text built by a renderer is such a sequence too, so a line is the run   *)
(* of chunks up to the next "\n".                                          *)
(***************************************************************************)
EXTENDS Integers, Sequences, FiniteSets, TLC

VARIABLES
    heap,    \* the allocated ProgramConfig objects; a *ProgramConfig is an index
    group,   \* the GroupConfig object the caller holds (NilGroup before NewGroupConfig)
    out,     \* what the most recent call gave back to the caller
    called,  \* history: the <<pointer, field>> pairs on which Opt.Set has run
    scope    \* the caller: one ProgramConfig or several, how many fields it sets
             \* explicitly, how many programs it adds to the group and how
             \* many exported fields it overwrites by plain assignment

vars == <<heap, group, out, called, scope>>

\* ------------------------------------------------------------------ bounds

MaxSets == 2
MaxGroupSets == 1
MaxGroupLen == 2
MaxFaults == 1

\* ------------------------------------------------------------------ strings

NL == "\n"
Blank == <<>>
WhiteSpace == {" ", NL, "\t"}

RECURSIVE Join(_, _)
\* strings.Join(elems, sep)
Join(elems, sep) ==
    IF Len(elems) = 0 THEN <<>>
    ELSE IF Len(elems) = 1 THEN elems[1]
    ELSE elems[1] \o sep \o Join(Tail(elems), sep)

RECURSIVE SplitOn(_, _)
\* the pieces of s between the occurrences of chunk c (strings.Split)
SplitOn(s, c) ==
    IF \A i \in 1..Len(s) : s[i] # c THEN <<s>>
    ELSE LET k == CHOOSE i \in 1..Len(s) :
                      s[i] = c /\ \A j \in 1..(i - 1) : s[j] # c
         IN <<SubSeq(s, 1, k - 1)>> \o SplitOn(SubSeq(s, k + 1, Len(s)), c)

RECURSIVE CleanParts(_, _, _)
\* the component walk of filepath.Clean: drops "" and ".", lets ".." remove
\* the component before it (at the root it is dropped, else it is kept)
CleanParts(parts, acc, rooted) ==
    IF Len(parts) = 0 THEN acc
    ELSE LET c == parts[1]
             rest == Tail(parts)
         IN IF c = <<>> \/ c = <<".">> THEN CleanParts(rest, acc, rooted)
            ELSE IF c = <<"..">>
                 THEN IF Len(acc) > 0 /\ acc[Len(acc)] # <<"..">>
                      THEN CleanParts(rest, SubSeq(acc, 1, Len(acc) - 1), rooted)
                      ELSE IF rooted THEN CleanParts(rest, acc, rooted)
                      ELSE CleanParts(rest, Append(acc, c), rooted)
            ELSE CleanParts(rest, Append(acc, c), rooted)

\* filepath.Clean on a "/"-separated path
Clean(path) ==
    IF path = <<>> THEN <<".">>
    ELSE LET rooted == path[1] = "/"
             kept == CleanParts(SplitOn(path, "/"), <<>>, rooted)
             body == Join(kept, <<"/">>)
         IN IF rooted THEN <<"/">> \o body
            ELSE IF body = <<>> THEN <<".">> ELSE body

\* filepath.Join(elem...): the non-empty elements joined by "/", then cleaned;
\* "" when every element is empty
FilepathJoin(elems) ==
    LET full == SelectSeq(elems, LAMBDA e : e # <<>>)
    IN IF Len(full) = 0 THEN <<>> ELSE Clean(Join(full, <<"/">>))

\* strconv.FormatBool
FormatBool(b) == IF b THEN <<"true">> ELSE <<"false">>

\* strconv.Itoa
Itoa(n) == <<ToString(n)>>

RECURSIVE TrimLeft(_)
TrimLeft(s) ==
    IF Len(s) > 0 /\ s[1] \in WhiteSpace THEN TrimLeft(Tail(s)) ELSE s

RECURSIVE TrimRight(_)
TrimRight(s) ==
    IF Len(s) > 0 /\ s[Len(s)] \in WhiteSpace
    THEN TrimRight(SubSeq(s, 1, Len(s) - 1)) ELSE s

\* strings.TrimSpace
TrimSpace(s) == TrimRight(TrimLeft(s))

\* printgo PTX: Println appends its argument and a line terminator
NewPTX == <<>>
Println(ptx, s) == ptx \o s \o <<NL>>

\* ------------------------------------------------------------------ must

\* must.Nice(a): passes a non-zero value, panics on the zero value ("")
Nice(a) == a # Blank

\* must.Full(p): passes a non-nil pointer
NilRef == 0
Full(p) == p # NilRef

\* must.Have(slice): passes a slice of at least one element
Have(s) == Len(s) > 0

\* mustslice.In(v, slice)
In(v, slice) == \E i \in 1..Len(slice) : slice[i] = v

\* ------------------------------------------------------------------ Opt

\* variant: the constructor already marks the value as set
NewOptMarked(v) == [Value |-> v, isSet |-> TRUE]

NewOpt(v) == [Value |-> v, isSet |-> FALSE]

Get(sv) == sv.Value

\* variant: stores the value and forgets the flag
SetValueOnly(sv, v) == [Value |-> v, isSet |-> sv.isSet]

\* variant: flags the value only when it differs from the stored one
SetIfChanged(sv, v) == [Value |-> v, isSet |-> sv.isSet \/ v # sv.Value]

Set(sv, v) == [Value |-> v, isSet |-> TRUE]

\* variant: every value counts as set
IsSetAlways(sv) == TRUE

IsSet(sv) == sv.isSet

\* ------------------------------------------------------------------ values

\* AutoRestart is *Opt[any]: the dynamic type and the value of that type
AnyBool(b) == [type |-> "bool", b |-> b, s |-> <<>>]
AnyString(s) == [type |-> "string", b |-> FALSE, s |-> s]

\* a map[string]string: nil or allocated, and its entries
\* an any that holds a value of another dynamic type, such as int
AnyOther == [type |-> "int", b |-> FALSE, s |-> <<>>]

NilMap == [isNil |-> TRUE, kv |-> <<>>]
MakeMap(kv) == [isNil |-> FALSE, kv |-> kv]
MapLen(m) == Cardinality(DOMAIN m.kv)

\* the orders in which `for key, value := range items` may visit the keys
RangeOrders(m) ==
    LET keys == DOMAIN m.kv
        n == Cardinality(keys)
    IN {o \in [1..n -> keys] : \A i, j \in 1..n : o[i] = o[j] => i = j}

Fields == {"Environment", "AutoStart", "AutoRestart", "StartRetries", "StartSecs",
           "LogMaxBytes", "LogBackups", "RedirectStderr", "StopAsGroup",
           "StopWaitSecs", "KillAsGroup", "StopSignal", "Priority", "ExitCodes",
           "NumProcs", "ProcessName"}

\* ------------------------------------------------------------------ inputs

NameArgs == {Blank, <<"a">>, <<"b">>}
RootArgs == {Blank, <<"/", "opt", "/">>}
UserArgs == {Blank, <<"deploy">>}
SlogArgs == {Blank, <<"/", "log">>}
GroupNameArgs == {Blank, <<"g">>}
ModeArgs == {<<"false">>, <<"true">>, <<"unexpected">>, <<"always">>}
EnvArgs == {NilMap, MakeMap(<<>>), MakeMap(<<"A">> :> <<"1">>),
            MakeMap((<<"A">> :> <<"1">>) @@ (<<"B">> :> <<"2">>))}
StartRetriesArgs == {3, 10}
StartSecsArgs == {1, 0}
LogMaxBytesArgs == {<<"50MB">>, <<"100MB">>}
LogBackupsArgs == {10, 3}
StopWaitSecsArgs == {10, 60}
StopSignalArgs == {<<"TERM">>, <<"QUIT">>, Blank}
PriorityArgs == {999, 1}
ExitCodesArgs == {<<0>>, <<0, 2>>, <<>>}
NumProcsArgs == {1, 3}
ProcessNameArgs == {<<"%(program_name)s">>, Blank}

\* ------------------------------------------------------------------ ProgramConfig

\* the ProgramConfig literal of NewProgramConfig
ProgramConfig(name, root, userName, slogRoot) ==
    [Name |-> name, UserName |-> userName, Root |-> root, SlogRoot |-> slogRoot,
     Environment |-> NewOpt(MakeMap(<<>>)),
     AutoStart |-> NewOpt(TRUE),
     AutoRestart |-> NewOpt(AnyString(<<"unexpected">>)),
     StartRetries |-> NewOpt(3),
     StartSecs |-> NewOpt(1),
     LogMaxBytes |-> NewOpt(<<"50MB">>),
     LogBackups |-> NewOpt(10),
     RedirectStderr |-> NewOpt(FALSE),
     StopAsGroup |-> NewOpt(FALSE),
     StopWaitSecs |-> NewOpt(10),
     KillAsGroup |-> NewOpt(FALSE),
     StopSignal |-> NewOpt(<<"TERM">>),
     Priority |-> NewOpt(999),
     ExitCodes |-> NewOpt(<<0>>),
     NumProcs |-> NewOpt(1),
     ProcessName |-> NewOpt(<<"%(program_name)s">>)]

Refs == 1..Len(heap)

\* the number of optional fields of the allocated objects that are set
SetCount == Cardinality({pf \in Refs \X Fields : heap[pf[1]][pf[2]].isSet})

\* the caller has room to set field f of p
CanSet(p, f) == heap[p][f].isSet \/ SetCount < scope.sets

\* results handed back to the caller: the call and its arguments, how it
\* ended, the pointer or the text it returned; for a render that directly
\* follows a render of the same object, the text of that earlier render; for
\* a setter that overwrites a set field, the value it overwrote
Panicked(op, args) ==
    [op |-> op, args |-> args, status |-> "panic", ref |-> NilRef, text |-> <<>>,
     again |-> FALSE, prev |-> <<>>]
Returned(op, args, p) ==
    [op |-> op, args |-> args, status |-> "ok", ref |-> p, text |-> <<>>,
     again |-> FALSE, prev |-> <<>>]
Overwrote(op, args, p, sv) ==
    [op |-> op, args |-> args, status |-> "ok", ref |-> p, text |-> <<>>,
     again |-> sv.isSet, prev |-> IF sv.isSet THEN <<sv.Value>> ELSE <<>>]

NilGroup == [isNil |-> TRUE, Name |-> <<>>, Programs |-> <<>>]

\* variant: slogRoot is not validated
NewProgramConfigNoSlogCheck ==
    \E name \in NameArgs, root \in RootArgs, userName \in UserArgs, slogRoot \in SlogArgs :
        IF Nice(name) /\ Nice(userName) /\ Nice(root)
        THEN /\ scope.single => heap = <<>>
             /\ \A p \in Refs : heap[p].Name # name
             /\ Len(heap) < Cardinality(NameArgs \ {Blank})
             /\ heap' = Append(heap, ProgramConfig(name, root, userName, slogRoot))
             /\ out' = Returned("NewProgramConfig", <<name, root, userName, slogRoot>>,
                             Len(heap) + 1)
             /\ UNCHANGED <<group, called, scope>>
        ELSE /\ heap = <<>>
             /\ out' = Panicked("NewProgramConfig", <<name, root, userName, slogRoot>>)
             /\ UNCHANGED <<heap, group, called, scope>>

\* The caller builds one object per program name (as many objects as it has
\* names, at most), and only one object at all when scope.single.
NewProgramConfig ==
    \E name \in NameArgs, root \in RootArgs, userName \in UserArgs, slogRoot \in SlogArgs :
        IF Nice(name) /\ Nice(userName) /\ Nice(root) /\ Nice(slogRoot)
        THEN /\ scope.single => heap = <<>>
             /\ \A p \in Refs : heap[p].Name # name
             /\ Len(heap) < Cardinality(NameArgs \ {Blank})
             /\ heap' = Append(heap, ProgramConfig(name, root, userName, slogRoot))
             /\ out' = Returned("NewProgramConfig", <<name, root, userName, slogRoot>>,
                             Len(heap) + 1)
             /\ UNCHANGED <<group, called, scope>>
        ELSE \* the call reads nothing but its arguments: the failing calls
             \* are made before the first object exists
             /\ heap = <<>>
             /\ out' = Panicked("NewProgramConfig", <<name, root, userName, slogRoot>>)
             /\ UNCHANGED <<heap, group, called, scope>>

\* variant: a field that is set keeps the value of its first Set
ChainKeepFirst(op, p, field, v) ==
    /\ CanSet(p, field)
    /\ heap' = [heap EXCEPT ![p][field] = IF @.isSet THEN @ ELSE Set(@, v)]
    /\ called' = called \cup {<<p, field>>}
    /\ out' = Overwrote(op, <<v>>, p, heap[p][field])
    /\ UNCHANGED <<group, scope>>

\* p.<field>.Set(v); return p
Chain(op, p, field, v) ==
    /\ CanSet(p, field)
    /\ heap' = [heap EXCEPT ![p][field] = Set(@, v)]
    /\ called' = called \cup {<<p, field>>}
    /\ out' = Overwrote(op, <<v>>, p, heap[p][field])
    /\ UNCHANGED <<group, scope>>

WithAutoStart ==
    \E p \in Refs, autoStart \in BOOLEAN :
        Chain("WithAutoStart", p, "AutoStart", autoStart)

WithAutoRestart ==
    \E p \in Refs, autoRestart \in BOOLEAN :
        Chain("WithAutoRestart", p, "AutoRestart", AnyBool(autoRestart))

\* variant: the mode is stored before it is validated
WithAutoRestartModeSetFirst ==
    \E p \in Refs, mode \in ModeArgs :
        /\ CanSet(p, "AutoRestart")
        /\ heap' = [heap EXCEPT ![p].AutoRestart = Set(@, AnyString(mode))]
        /\ called' = called \cup {<<p, "AutoRestart">>}
        /\ out' = IF In(mode, <<(<<"false">>), (<<"true">>), (<<"unexpected">>)>>)
                  THEN Overwrote("WithAutoRestartMode", <<mode>>, p, heap[p].AutoRestart)
                  ELSE Panicked("WithAutoRestartMode", <<mode>>)
        /\ UNCHANGED <<group, scope>>

WithAutoRestartMode ==
    \E p \in Refs, mode \in ModeArgs :
        IF In(mode, <<(<<"false">>), (<<"true">>), (<<"unexpected">>)>>)
        THEN /\ CanSet(p, "AutoRestart")
             /\ heap' = [heap EXCEPT ![p].AutoRestart = Set(@, AnyString(mode))]
             /\ called' = called \cup {<<p, "AutoRestart">>}
             /\ out' = Overwrote("WithAutoRestartMode", <<mode>>, p, heap[p].AutoRestart)
             /\ UNCHANGED <<group, scope>>
        ELSE /\ out' = Panicked("WithAutoRestartMode", <<mode>>)
             /\ UNCHANGED <<heap, group, called, scope>>

WithStartRetries ==
    \E p \in Refs, startRetries \in StartRetriesArgs :
        Chain("WithStartRetries", p, "StartRetries", startRetries)

WithStartSecs ==
    \E p \in Refs, startSecs \in StartSecsArgs :
        Chain("WithStartSecs", p, "StartSecs", startSecs)

WithLogMaxBytes ==
    \E p \in Refs, logMaxBytes \in LogMaxBytesArgs :
        Chain("WithLogMaxBytes", p, "LogMaxBytes", logMaxBytes)

WithLogBackups ==
    \E p \in Refs, logBackups \in LogBackupsArgs :
        Chain("WithLogBackups", p, "LogBackups", logBackups)

WithRedirectStderr ==
    \E p \in Refs, redirectStderr \in BOOLEAN :
        Chain("WithRedirectStderr", p, "RedirectStderr", redirectStderr)

\* variant: the flag is written to KillAsGroup as well
WithStopAsGroupAndKill ==
    \E p \in Refs, stopAsGroup \in BOOLEAN :
        /\ CanSet(p, "StopAsGroup")
        /\ heap' = [heap EXCEPT ![p].StopAsGroup = Set(@, stopAsGroup),
                                ![p].KillAsGroup = Set(@, stopAsGroup)]
        /\ called' = called \cup {<<p, "StopAsGroup">>, <<p, "KillAsGroup">>}
        /\ out' = Overwrote("WithStopAsGroup", <<stopAsGroup>>, p, heap[p].StopAsGroup)
        /\ UNCHANGED <<group, scope>>

WithStopAsGroup ==
    \E p \in Refs, stopAsGroup \in BOOLEAN :
        Chain("WithStopAsGroup", p, "StopAsGroup", stopAsGroup)

WithKillAsGroup ==
    \E p \in Refs, killAsGroup \in BOOLEAN :
        Chain("WithKillAsGroup", p, "KillAsGroup", killAsGroup)

WithStopWaitSecs ==
    \E p \in Refs, stopWaitSecs \in StopWaitSecsArgs :
        Chain("WithStopWaitSecs", p, "StopWaitSecs", stopWaitSecs)

WithStopSignal ==
    \E p \in Refs, stopSignal \in StopSignalArgs :
        Chain("WithStopSignal", p, "StopSignal", stopSignal)

WithPriority ==
    \E p \in Refs, priority \in PriorityArgs :
        Chain("WithPriority", p, "Priority", priority)

WithEnvironment ==
    \E p \in Refs, environment \in EnvArgs :
        Chain("WithEnvironment", p, "Environment", environment)

WithExitCodes ==
    \E p \in Refs, exitCodes \in ExitCodesArgs :
        Chain("WithExitCodes", p, "ExitCodes", exitCodes)

WithNumProcs ==
    \E p \in Refs, numProcs \in NumProcsArgs :
        Chain("WithNumProcs", p, "NumProcs", numProcs)

WithProcessName ==
    \E p \in Refs, processName \in ProcessNameArgs :
        Chain("WithProcessName", p, "ProcessName", processName)

\* ------------------------------------------------------------------ exported fields

RequiredFields == {"Name", "UserName", "Root", "SlogRoot"}

\* the number of places where the state is one that the constructors and
\* the With* setters cannot produce
Faults ==
    Cardinality({pf \in Refs \X RequiredFields : heap[pf[1]][pf[2]] = Blank})
        + Cardinality({p \in Refs : heap[p].AutoRestart.Value.type = "int"})
        + (IF ~group.isNil /\ group.Name = Blank THEN 1 ELSE 0)

\* program.<field> = "" on one of the exported string fields
AssignRequired ==
    \E p \in Refs, field \in RequiredFields :
        /\ Faults < scope.faults
        /\ heap[p][field] # Blank
        /\ heap' = [heap EXCEPT ![p][field] = Blank]
        /\ out' = Returned("assign", <<>>, p)
        /\ UNCHANGED <<group, called, scope>>

\* program.AutoRestart.Set(v) with a v that is neither bool nor string
SetAutoRestartAny ==
    \E p \in Refs :
        /\ Faults < scope.faults
        /\ CanSet(p, "AutoRestart")
        /\ heap' = [heap EXCEPT ![p].AutoRestart = Set(@, AnyOther)]
        /\ called' = called \cup {<<p, "AutoRestart">>}
        /\ out' = Overwrote("Set", <<AnyOther>>, p, heap[p].AutoRestart)
        /\ UNCHANGED <<group, scope>>

\* program.AutoRestart.Value = v with a v that is neither bool nor string:
\* the exported Value is overwritten, the unexported isSet keeps its state
AssignAutoRestartValue ==
    \E p \in Refs :
        /\ Faults < scope.faults
        /\ heap' = [heap EXCEPT ![p].AutoRestart.Value = AnyOther]
        /\ out' = Returned("assign", <<>>, p)
        /\ UNCHANGED <<group, called, scope>>

\* ------------------------------------------------------------------ renderer

RECURSIVE MapStrings(_, _)
\* results[i] = strconv.Itoa(items[i])
MapStrings(items, i) ==
    IF i > Len(items) THEN <<>> ELSE <<Itoa(items[i])>> \o MapStrings(items, i + 1)

combineInts(items, sep) ==
    IF Len(items) = 0 THEN <<>> ELSE Join(MapStrings(items, 1), sep)

\* order: the order in which the range loop visits the keys of items
combineSsMap(items, sep, order) ==
    IF MapLen(items) = 0 THEN <<>>
    ELSE Join([i \in 1..Len(order) |-> order[i] \o <<"=">> \o items.kv[order[i]]], sep)

\* if cond { ptx.Println(s) }
PrintIf(ptx, cond, s) == IF cond THEN Println(ptx, s) ELSE ptx

NoText == [status |-> "panic", text |-> <<>>]

\* section header and the basic required settings
PrintBasic(ptx, c) ==
    LET t1 == Println(ptx, <<"[program:">> \o c.Name \o <<"]">>)
        t2 == Println(t1, <<"user            =", " ">> \o c.UserName)
        t3 == Println(t2, <<"directory       =", " ">> \o c.Root)
    IN Println(t3, <<"command         =", " ">>
                       \o FilepathJoin(<<c.Root, <<"bin">>, c.Name>>))

\* variant: the joined text is not tested for emptiness
PrintEnvironmentUnchecked(ptx, c, order) ==
    IF IsSet(c.Environment)
    THEN Println(ptx, <<"environment     =", " ">>
                          \o combineSsMap(Get(c.Environment), <<",">>, order))
    ELSE ptx

\* the environment line: only when set and non-empty after joining
PrintEnvironment(ptx, c, order) ==
    IF IsSet(c.Environment)
    THEN LET env == combineSsMap(Get(c.Environment), <<",">>, order)
         IN PrintIf(ptx, env # <<>>, <<"environment     =", " ">> \o env)
    ELSE ptx

\* variant: the value is printed as a string whatever its type
AutoRestartTextAsString(value) == value.s

\* the type switch on the AutoRestart value (reached with a bool or a string)
AutoRestartText(value) ==
    IF value.type = "bool" THEN FormatBool(value.b) ELSE value.s

\* process settings
PrintProcess(ptx, c) ==
    LET t1 == PrintIf(ptx, IsSet(c.AutoStart),
                      <<"autostart       =", " ">> \o FormatBool(Get(c.AutoStart)))
        t2 == PrintIf(t1, IsSet(c.AutoRestart),
                      <<"autorestart     =", " ">> \o AutoRestartText(Get(c.AutoRestart)))
        t3 == PrintIf(t2, IsSet(c.StartRetries),
                      <<"startretries    =", " ">> \o Itoa(Get(c.StartRetries)))
    IN PrintIf(t3, IsSet(c.StartSecs),
               <<"startsecs       =", " ">> \o Itoa(Get(c.StartSecs)))

\* stdout log path and its rotation settings
PrintStdoutLog(ptx, c) ==
    LET t1 == Println(ptx, <<"stdout_logfile  =", " ">>
                            \o FilepathJoin(<<c.SlogRoot, c.Name \o <<".log">>>>))
        t2 == PrintIf(t1, IsSet(c.LogMaxBytes),
                      <<"stdout_logfile_maxbytes =", " ">> \o Get(c.LogMaxBytes))
    IN PrintIf(t2, IsSet(c.LogBackups),
               <<"stdout_logfile_backups =", " ">> \o Itoa(Get(c.LogBackups)))

\* variant: the rotation settings are written for stdout only
PrintStderrLogNoRotation(ptx, c) ==
    LET t1 == Println(ptx, <<"stderr_logfile  =", " ">>
                            \o FilepathJoin(<<c.SlogRoot, c.Name \o <<".err">>>>))
    IN PrintIf(t1, IsSet(c.RedirectStderr),
               <<"redirect_stderr =", " ">> \o FormatBool(Get(c.RedirectStderr)))

\* stderr log path, its rotation settings and the redirect flag
PrintStderrLog(ptx, c) ==
    LET t1 == Println(ptx, <<"stderr_logfile  =", " ">>
                            \o FilepathJoin(<<c.SlogRoot, c.Name \o <<".err">>>>))
        t2 == PrintIf(t1, IsSet(c.LogMaxBytes),
                      <<"stderr_logfile_maxbytes =", " ">> \o Get(c.LogMaxBytes))
        t3 == PrintIf(t2, IsSet(c.LogBackups),
                      <<"stderr_logfile_backups =", " ">> \o Itoa(Get(c.LogBackups)))
    IN PrintIf(t3, IsSet(c.RedirectStderr),
               <<"redirect_stderr =", " ">> \o FormatBool(Get(c.RedirectStderr)))

\* advanced process settings and the multi-instance settings
PrintAdvanced(ptx, c) ==
    LET t1 == PrintIf(ptx, IsSet(c.StopAsGroup),
                      <<"stopasgroup     =", " ">> \o FormatBool(Get(c.StopAsGroup)))
        t2 == PrintIf(t1, IsSet(c.StopWaitSecs),
                      <<"stopwaitsecs    =", " ">> \o Itoa(Get(c.StopWaitSecs)))
        t3 == PrintIf(t2, IsSet(c.KillAsGroup),
                      <<"killasgroup     =", " ">> \o FormatBool(Get(c.KillAsGroup)))
        t4 == PrintIf(t3, IsSet(c.StopSignal),
                      <<"stopsignal      =", " ">> \o Get(c.StopSignal))
        t5 == PrintIf(t4, IsSet(c.Priority),
                      <<"priority        =", " ">> \o Itoa(Get(c.Priority)))
        t6 == PrintIf(t5, IsSet(c.ExitCodes),
                      <<"exitcodes       =", " ">>
                          \o combineInts(Get(c.ExitCodes), <<",">>))
        t7 == PrintIf(t6, IsSet(c.NumProcs),
                      <<"numprocs        =", " ">> \o Itoa(Get(c.NumProcs)))
    IN PrintIf(t7, IsSet(c.ProcessName),
               <<"process_name    =", " ">> \o Get(c.ProcessName))

\* variant: the required fields are not validated
GenerateProgramConfigUnchecked(h, program, order) ==
    IF ~Full(program) THEN NoText
    ELSE LET c == h[program] IN
    IF IsSet(c.AutoRestart) /\ Get(c.AutoRestart).type \notin {"bool", "string"}
    THEN NoText
    ELSE [status |-> "ok",
          text |-> PrintAdvanced(PrintStderrLog(PrintStdoutLog(PrintProcess(
                       PrintEnvironment(PrintBasic(NewPTX, c), c, order), c), c), c), c)]

\* h: the heap; program: the pointer; order: the range order of the
\* environment map in this call.  A panic leaves the caller without text.
GenerateProgramConfig(h, program, order) ==
    IF ~Full(program) THEN NoText
    ELSE LET c == h[program] IN
    IF ~(Nice(c.Name) /\ Nice(c.Root) /\ Nice(c.UserName) /\ Nice(c.SlogRoot)) THEN NoText
    ELSE IF IsSet(c.AutoRestart) /\ Get(c.AutoRestart).type \notin {"bool", "string"}
    THEN NoText
    ELSE [status |-> "ok",
          text |-> PrintAdvanced(PrintStderrLog(PrintStdoutLog(PrintProcess(
                       PrintEnvironment(PrintBasic(NewPTX, c), c, order), c), c), c), c)]

\* the range orders open to a render of the object behind program
OrdersOf(h, program) ==
    IF program \in 1..Len(h) THEN RangeOrders(Get(h[program].Environment)) ELSE {<<>>}

\* variant: the renderer replaces a nil environment map by an empty one
CallGenerateProgramConfigNormalising ==
    \E program \in {NilRef} \cup Refs :
        \E order \in OrdersOf(heap, program) :
            LET r == GenerateProgramConfig(heap, program, order)
                again == /\ out.op = "GenerateProgramConfig"
                         /\ out.ref = program
                         /\ out.status = "ok"
            IN /\ out' = [op |-> "GenerateProgramConfig", args |-> <<>>, status |-> r.status,
                          ref |-> program, text |-> r.text,
                          again |-> again,
                          prev |-> IF again THEN out.text ELSE <<>>]
               /\ heap' = IF program \in Refs
                          THEN [heap EXCEPT ![program].Environment.Value.isNil = FALSE]
                          ELSE heap
               /\ UNCHANGED <<group, called, scope>>

CallGenerateProgramConfig ==
    \E program \in {NilRef} \cup Refs :
        \E order \in OrdersOf(heap, program) :
            LET r == GenerateProgramConfig(heap, program, order)
                again == /\ out.op = "GenerateProgramConfig"
                         /\ out.ref = program
                         /\ out.status = "ok"
            IN /\ out' = [op |-> "GenerateProgramConfig", args |-> <<>>, status |-> r.status,
                          ref |-> program, text |-> r.text,
                          again |-> again,
                          prev |-> IF again THEN out.text ELSE <<>>]
               /\ UNCHANGED <<heap, group, called, scope>>

\* ------------------------------------------------------------------ GroupConfig

NewGroupConfig ==
    \E name \in GroupNameArgs :
        IF Nice(name)
        THEN /\ group' = [isNil |-> FALSE, Name |-> name, Programs |-> <<>>]
             /\ out' = Returned("NewGroupConfig", <<name>>, NilRef)
             /\ UNCHANGED <<heap, called, scope>>
        ELSE /\ out' = Panicked("NewGroupConfig", <<name>>)
             /\ UNCHANGED <<heap, group, called, scope>>

AddProgram ==
    \E program \in {NilRef} \cup Refs :
        /\ ~group.isNil
        /\ Len(group.Programs) < scope.adds
        /\ group' = [group EXCEPT !.Programs = Append(@, program)]
        /\ out' = Returned("AddProgram", <<>>, NilRef)
        /\ UNCHANGED <<heap, called, scope>>

\* group.Name = ""
AssignGroupName ==
    /\ Faults < scope.faults
    /\ ~group.isNil
    /\ group.Name # Blank
    /\ group' = [group EXCEPT !.Name = Blank]
    /\ out' = Returned("assign", <<>>, NilRef)
    /\ UNCHANGED <<heap, called, scope>>

RECURSIVE ProgramNamesPrepended(_, _)
\* variant: each name is put in front of the names collected so far
ProgramNamesPrepended(h, programs) ==
    IF Len(programs) = 0 THEN <<>>
    ELSE ProgramNamesPrepended(h, Tail(programs)) \o <<h[programs[1]].Name>>

RECURSIVE ProgramNames(_, _)
\* for _, p := range group.Programs { programs = append(programs, p.Name) }
ProgramNames(h, programs) ==
    IF Len(programs) = 0 THEN <<>>
    ELSE <<h[programs[1]].Name>> \o ProgramNames(h, Tail(programs))

RECURSIVE ProgramBlocksAsConstructed(_, _, _, _, _)
\* variant: each program is printed as NewProgramConfig built it
ProgramBlocksAsConstructed(h, programs, orders, i, ptx) ==
    IF i > Len(programs) THEN [status |-> "ok", text |-> ptx]
    ELSE LET c == h[programs[i]]
             cfs == GenerateProgramConfig(
                        <<ProgramConfig(c.Name, c.Root, c.UserName, c.SlogRoot)>>, 1, <<>>)
         IN IF cfs.status # "ok" THEN NoText
            ELSE ProgramBlocksAsConstructed(h, programs, orders, i + 1,
                                            Println(Println(ptx, <<>>), TrimSpace(cfs.text)))

RECURSIVE ProgramBlocksUntrimmed(_, _, _, _, _)
\* variant: the text of each program is printed as GenerateProgramConfig gave it
ProgramBlocksUntrimmed(h, programs, orders, i, ptx) ==
    IF i > Len(programs) THEN [status |-> "ok", text |-> ptx]
    ELSE LET cfs == GenerateProgramConfig(h, programs[i], orders[i])
         IN IF cfs.status # "ok" THEN NoText
            ELSE ProgramBlocksUntrimmed(h, programs, orders, i + 1,
                                        Println(Println(ptx, <<>>), cfs.text))

RECURSIVE ProgramBlocks(_, _, _, _, _)
\* for _, program := range group.Programs { ptx.Println(); ... }
ProgramBlocks(h, programs, orders, i, ptx) ==
    IF i > Len(programs) THEN [status |-> "ok", text |-> ptx]
    ELSE LET cfs == GenerateProgramConfig(h, programs[i], orders[i])
         IN IF cfs.status # "ok" THEN NoText
            ELSE ProgramBlocks(h, programs, orders, i + 1,
                               Println(Println(ptx, <<>>), TrimSpace(cfs.text)))

\* variant: the name of the group is not validated
GenerateGroupConfigNoNameCheck(h, g, orders) ==
    IF g.isNil THEN NoText
    ELSE IF ~Have(g.Programs) THEN NoText
    ELSE IF \E i \in 1..Len(g.Programs) : g.Programs[i] = NilRef THEN NoText
    ELSE LET t1 == Println(NewPTX, <<"[group:">> \o g.Name \o <<"]">>)
             t2 == Println(t1, <<"programs=">>
                                 \o Join(ProgramNames(h, g.Programs), <<",">>))
             t3 == Println(t2, <<>>)
         IN ProgramBlocks(h, g.Programs, orders, 1, t3)

\* orders[i]: the range order of the environment map of the i-th program
GenerateGroupConfig(h, g, orders) ==
    IF g.isNil THEN NoText
    ELSE IF ~Nice(g.Name) THEN NoText
    ELSE IF ~Have(g.Programs) THEN NoText
    ELSE IF \E i \in 1..Len(g.Programs) : g.Programs[i] = NilRef THEN NoText
    ELSE LET t1 == Println(NewPTX, <<"[group:">> \o g.Name \o <<"]">>)
             t2 == Println(t1, <<"programs=">>
                                 \o Join(ProgramNames(h, g.Programs), <<",">>))
             t3 == Println(t2, <<>>)
         IN ProgramBlocks(h, g.Programs, orders, 1, t3)

CallGenerateGroupConfig ==
    \E orders \in {o \in [1..Len(group.Programs) ->
                            UNION {OrdersOf(heap, group.Programs[i]) :
                                       i \in 1..Len(group.Programs)}] :
                      \A i \in 1..Len(group.Programs) :
                          o[i] \in OrdersOf(heap, group.Programs[i])} :
        LET r == GenerateGroupConfig(heap, group, orders)
        IN /\ out' = [op |-> "GenerateGroupConfig", args |-> <<>>, status |-> r.status,
                      ref |-> NilRef, text |-> r.text,
                      again |-> FALSE, prev |-> <<>>]
           /\ UNCHANGED <<heap, group, called, scope>>

\* ------------------------------------------------------------------ specifications

\* one ProgramConfig: construction, the chained setters, the renderer
Init ==
    /\ heap = <<>>
    /\ group = NilGroup
    /\ out = Returned("init", <<>>, NilRef)
    /\ called = {}
    /\ scope = [single |-> TRUE, sets |-> MaxSets, adds |-> 0, faults |-> 0]

With ==
    \/ WithAutoStart
    \/ WithAutoRestart
    \/ WithAutoRestartMode
    \/ WithStartRetries
    \/ WithStartSecs
    \/ WithLogMaxBytes
    \/ WithLogBackups
    \/ WithRedirectStderr
    \/ WithStopAsGroup
    \/ WithKillAsGroup
    \/ WithStopWaitSecs
    \/ WithStopSignal
    \/ WithPriority
    \/ WithEnvironment
    \/ WithExitCodes
    \/ WithNumProcs
    \/ WithProcessName

Next == NewProgramConfig \/ With \/ CallGenerateProgramConfig

Spec == Init /\ [][Next]_vars

\* several ProgramConfigs collected in a GroupConfig; of the setters the caller
\* uses three: an optional line, the map-ordered line and the last line
GroupInit ==
    /\ heap = <<>>
    /\ group = NilGroup
    /\ out = Returned("init", <<>>, NilRef)
    /\ called = {}
    /\ scope = [single |-> FALSE, sets |-> MaxGroupSets, adds |-> MaxGroupLen, faults |-> 0]

GroupNext ==
    \/ NewProgramConfig
    \/ WithAutoStart
    \/ WithEnvironment
    \/ WithProcessName
    \/ CallGenerateProgramConfig
    \/ NewGroupConfig
    \/ AddProgram
    \/ CallGenerateGroupConfig

GroupSpec == GroupInit /\ [][GroupNext]_vars

\* programs and a group whose exported fields the caller also overwrites by
\* plain assignment, and whose AutoRestart it also sets directly
FaultInit ==
    /\ heap = <<>>
    /\ group = NilGroup
    /\ out = Returned("init", <<>>, NilRef)
    /\ called = {}
    /\ scope = [single |-> FALSE, sets |-> MaxGroupSets, adds |-> MaxGroupLen,
                faults |-> MaxFaults]

FaultNext ==
    \/ NewProgramConfig
    \/ WithAutoRestart
    \/ AssignRequired
    \/ SetAutoRestartAny
    \/ AssignAutoRestartValue
    \/ CallGenerateProgramConfig
    \/ NewGroupConfig
    \/ AddProgram
    \/ AssignGroupName
    \/ CallGenerateGroupConfig

FaultSpec == FaultInit /\ [][FaultNext]_vars

\* ------------------------------------------------------------------ reading rendered text

\* the lines of a text, each without its terminator
TextLines(text) ==
    LET parts == SplitOn(text, NL) IN SubSeq(parts, 1, Len(parts) - 1)

\* the label a line starts with
KeyOf(line) == IF Len(line) > 0 THEN line[1] ELSE ""

LineAt(lines, i) == IF i \in 1..Len(lines) THEN lines[i] ELSE <<"<no line>">>

LinesWith(lines, key) == {i \in 1..Len(lines) : KeyOf(lines[i]) = key}

\* the labels of the line(s) each optional field renders to
KeysOf(f) ==
    CASE f = "Environment" -> {"environment     ="}
      [] f = "AutoStart" -> {"autostart       ="}
      [] f = "AutoRestart" -> {"autorestart     ="}
      [] f = "StartRetries" -> {"startretries    ="}
      [] f = "StartSecs" -> {"startsecs       ="}
      [] f = "LogMaxBytes" -> {"stdout_logfile_maxbytes =", "stderr_logfile_maxbytes ="}
      [] f = "LogBackups" -> {"stdout_logfile_backups =", "stderr_logfile_backups ="}
      [] f = "RedirectStderr" -> {"redirect_stderr ="}
      [] f = "StopAsGroup" -> {"stopasgroup     ="}
      [] f = "StopWaitSecs" -> {"stopwaitsecs    ="}
      [] f = "KillAsGroup" -> {"killasgroup     ="}
      [] f = "StopSignal" -> {"stopsignal      ="}
      [] f = "Priority" -> {"priority        ="}
      [] f = "ExitCodes" -> {"exitcodes       ="}
      [] f = "NumProcs" -> {"numprocs        ="}
      [] f = "ProcessName" -> {"process_name    ="}

FieldShown(lines, f) == \A k \in KeysOf(f) : LinesWith(lines, k) # {}
FieldAbsent(lines, f) == \A k \in KeysOf(f) : LinesWith(lines, k) = {}

\* the caller holds the text of a successful GenerateProgramConfig(out.ref)
Rendered == out.op = "GenerateProgramConfig" /\ out.status = "ok"

\* the setter of field f of object p has run Opt.Set
WasSet(p, f) == <<p, f>> \in called

EnvLen(c) == Cardinality(DOMAIN c.Environment.Value.kv)

\* ------------------------------------------------------------------ claims

\* C1: a ProgramConfig on which no setter has run renders to exactly six
\* lines: the [program:<name>] header, user, directory, command,
\* stdout_logfile and stderr_logfile, in this order, and nothing else.
C1_ZeroConfigSixLines ==
    (out.op = "GenerateProgramConfig" /\ out.ref \in Refs
         /\ \A f \in Fields : ~WasSet(out.ref, f))
    => /\ out.status = "ok"
       /\ LET lines == TextLines(out.text)
              c == heap[out.ref]
          IN /\ Len(lines) = 6
             /\ lines[1] = <<"[program:">> \o c.Name \o <<"]">>
             /\ lines[2] = <<"user            =", " ">> \o c.UserName
             /\ lines[3] = <<"directory       =", " ">> \o c.Root
             /\ KeyOf(lines[4]) = "command         ="
             /\ KeyOf(lines[5]) = "stdout_logfile  ="
             /\ KeyOf(lines[6]) = "stderr_logfile  ="

C1_Witness ==
    /\ Rendered
    /\ \A f \in Fields : ~WasSet(out.ref, f)
    /\ Len(TextLines(out.text)) = 6

C3_RenderTwiceSameText ==
    (Rendered /\ out.again) => out.text = out.prev

\* C4: isSet is false right after NewProgramConfig, is true exactly when the
\* field's setter has run Set since construction, and never goes back from
\* true to false.
C4_IsSetTracksSet ==
    /\ [](\A p \in Refs : \A f \in Fields : heap[p][f].isSet <=> WasSet(p, f))
    /\ []((out.op = "NewProgramConfig" /\ out.status = "ok")
              => \A f \in Fields : ~heap[out.ref][f].isSet)
    /\ [][\A p \in Refs : \A f \in Fields : heap[p][f].isSet => heap'[p][f].isSet]_vars

C4_Witness ==
    /\ Rendered
    /\ heap[out.ref].StopSignal.isSet
    /\ ~heap[out.ref].Priority.isSet

\* C5: NewProgramConfig panics and returns no object when at least one of its
\* four arguments is the empty string; with four non-empty arguments it
\* returns an object that holds them.
C5_NewProgramConfigValidates ==
    out.op = "NewProgramConfig" =>
        IF \E i \in 1..4 : out.args[i] = <<>>
        THEN out.status = "panic" /\ out.ref = NilRef
        ELSE /\ out.status = "ok"
             /\ out.ref \in Refs
             /\ heap[out.ref].Name = out.args[1]
             /\ heap[out.ref].Root = out.args[2]
             /\ heap[out.ref].UserName = out.args[3]
             /\ heap[out.ref].SlogRoot = out.args[4]

C5_Witness ==
    /\ out.op = "NewProgramConfig"
    /\ out.status = "panic"
    /\ out.args[1] # <<>> /\ out.args[2] # <<>> /\ out.args[3] # <<>>
    /\ out.args[4] = <<>>

\* C6: WithAutoRestartMode panics for a mode outside "false", "true",
\* "unexpected" and then leaves every object as it was; for a mode of the set
\* it stores the mode as the AutoRestart value and marks it set.
C6_AutoRestartModeValidates ==
    [][out'.op = "WithAutoRestartMode" =>
          LET mode == out'.args[1]
          IN IF mode \in {<<"false">>, <<"true">>, <<"unexpected">>}
             THEN /\ out'.status = "ok"
                  /\ out'.ref \in 1..Len(heap')
                  /\ heap'[out'.ref].AutoRestart.isSet
                  /\ heap'[out'.ref].AutoRestart.Value.type = "string"
                  /\ heap'[out'.ref].AutoRestart.Value.s = mode
             ELSE /\ out'.status = "panic"
                  /\ heap' = heap
                  /\ group' = group]_vars

C6_Witness ==
    /\ out.op = "WithAutoRestartMode"
    /\ out.status = "panic"
    /\ \E p \in Refs : /\ heap[p].AutoRestart.isSet
                       /\ heap[p].AutoRestart.Value.type = "bool"

\* C7: the environment line is rendered exactly when Environment is set and
\* its mapping is non-empty; with an empty or nil mapping set, the text is
\* the text of the same configuration on which WithEnvironment never ran.
C7_EnvironmentLineRule ==
    Rendered =>
        LET lines == TextLines(out.text)
            c == heap[out.ref]
            never == [heap EXCEPT ![out.ref].Environment =
                          [Value |-> [isNil |-> FALSE, kv |-> <<>>], isSet |-> FALSE]]
        IN /\ FieldShown(lines, "Environment")
                  <=> (WasSet(out.ref, "Environment") /\ EnvLen(c) > 0)
           /\ (WasSet(out.ref, "Environment") /\ EnvLen(c) = 0)
                  => out.text = GenerateProgramConfig(never, out.ref, <<>>).text

C7_Witness ==
    /\ Rendered
    /\ WasSet(out.ref, "Environment")
    /\ heap[out.ref].Environment.Value.isNil
    /\ WasSet(out.ref, "AutoStart")

\* C8: a set LogMaxBytes gives a stdout_logfile_maxbytes line right after the
\* stdout_logfile line and a stderr_logfile_maxbytes line right after the
\* stderr_logfile line, both with the value; a set LogBackups gives the two
\* _backups lines with its value, each after the _maxbytes line of its
\* stream when there is one, else right after the logfile line; an unset
\* field gives neither of its two lines.
C8_LogRotationLines ==
    Rendered =>
        LET lines == TextLines(out.text)
            c == heap[out.ref]
            first(key) == IF LinesWith(lines, key) = {} THEN 0
                          ELSE CHOOSE i \in LinesWith(lines, key) :
                                   \A j \in LinesWith(lines, key) : i <= j
            so == first("stdout_logfile  =")
            se == first("stderr_logfile  =")
            m == IF WasSet(out.ref, "LogMaxBytes") THEN 1 ELSE 0
        IN /\ so > 0 /\ se > so
           /\ IF WasSet(out.ref, "LogMaxBytes")
              THEN /\ LineAt(lines, so + 1)
                          = <<"stdout_logfile_maxbytes =", " ">> \o c.LogMaxBytes.Value
                   /\ LineAt(lines, se + 1)
                          = <<"stderr_logfile_maxbytes =", " ">> \o c.LogMaxBytes.Value
                   /\ \A k \in KeysOf("LogMaxBytes") : Cardinality(LinesWith(lines, k)) = 1
              ELSE FieldAbsent(lines, "LogMaxBytes")
           /\ IF WasSet(out.ref, "LogBackups")
              THEN /\ LineAt(lines, so + m + 1)
                          = <<"stdout_logfile_backups =", " ", ToString(c.LogBackups.Value)>>
                   /\ LineAt(lines, se + m + 1)
                          = <<"stderr_logfile_backups =", " ", ToString(c.LogBackups.Value)>>
                   /\ \A k \in KeysOf("LogBackups") : Cardinality(LinesWith(lines, k)) = 1
              ELSE FieldAbsent(lines, "LogBackups")

C8_Witness ==
    /\ Rendered
    /\ WasSet(out.ref, "LogMaxBytes")
    /\ WasSet(out.ref, "LogBackups")

\* the defaults of the constructor, as values and as rendered
DefaultValue(f) ==
    CASE f = "AutoStart" -> TRUE
      [] f = "AutoRestart" -> [type |-> "string", b |-> FALSE, s |-> <<"unexpected">>]
      [] f = "StartRetries" -> 3
      [] f = "StartSecs" -> 1
      [] f = "LogMaxBytes" -> <<"50MB">>
      [] f = "LogBackups" -> 10
      [] f = "RedirectStderr" -> FALSE
      [] f = "StopAsGroup" -> FALSE
      [] f = "StopWaitSecs" -> 10
      [] f = "KillAsGroup" -> FALSE
      [] f = "StopSignal" -> <<"TERM">>
      [] f = "Priority" -> 999
      [] f = "ExitCodes" -> <<0>>
      [] f = "NumProcs" -> 1
      [] f = "ProcessName" -> <<"%(program_name)s">>

DefaultText(f) ==
    CASE f = "AutoStart" -> <<"true">>
      [] f = "AutoRestart" -> <<"unexpected">>
      [] f = "StartRetries" -> <<"3">>
      [] f = "StartSecs" -> <<"1">>
      [] f = "LogMaxBytes" -> <<"50MB">>
      [] f = "LogBackups" -> <<"10">>
      [] f = "RedirectStderr" -> <<"false">>
      [] f = "StopAsGroup" -> <<"false">>
      [] f = "StopWaitSecs" -> <<"10">>
      [] f = "KillAsGroup" -> <<"false">>
      [] f = "StopSignal" -> <<"TERM">>
      [] f = "Priority" -> <<"999">>
      [] f = "ExitCodes" -> <<"0">>
      [] f = "NumProcs" -> <<"1">>
      [] f = "ProcessName" -> <<"%(program_name)s">>

RECURSIVE CommaNames(_)
\* the names of the objects behind the pointers, comma-joined in order
CommaNames(programs) ==
    IF Len(programs) = 0 THEN <<>>
    ELSE heap[programs[1]].Name
             \o (IF Len(programs) = 1 THEN <<>> ELSE <<",">> \o CommaNames(Tail(programs)))

\* C10: the second line of a group rendering is programs= followed by the
\* names of the added programs, one per AddProgram call, comma-joined in the
\* order of the calls, whatever optional fields the programs have set.
C10_ProgramsLineInInsertionOrder ==
    (out.op = "GenerateGroupConfig" /\ out.status = "ok")
    => LET lines == TextLines(out.text)
       IN /\ Len(lines) >= 2
          /\ lines[2] = <<"programs=">> \o CommaNames(group.Programs)

C10_Witness ==
    /\ out.op = "GenerateGroupConfig"
    /\ out.status = "ok"
    /\ group.Programs = <<2, 1>>
    /\ heap[1].Name # heap[2].Name
    /\ \E p \in Refs : \E f \in Fields : heap[p][f].isSet

\* the caller holds the text of a successful GenerateGroupConfig(group)
GroupRendered == out.op = "GenerateGroupConfig" /\ out.status = "ok"

\* the range orders open to one rendering of each program of a sequence
OrdersFor(programs) ==
    {o \in [1..Len(programs) ->
                UNION {OrdersOf(heap, programs[i]) : i \in 1..Len(programs)}] :
         \A i \in 1..Len(programs) : o[i] \in OrdersOf(heap, programs[i])}

RECURSIVE TrimmedBlocks(_, _, _)
\* from the i-th program on: a line terminator, the trimmed text of the
\* program rendered alone, a line terminator
TrimmedBlocks(programs, orders, i) ==
    IF i > Len(programs) THEN <<>>
    ELSE <<NL>> \o TrimSpace(GenerateProgramConfig(heap, programs[i], orders[i]).text)
             \o <<NL>> \o TrimmedBlocks(programs, orders, i + 1)

\* C11: a group rendering of n >= 1 programs is the [group:<name>] line, the
\* programs= line, two empty lines, then the n program blocks in insertion
\* order, consecutive blocks one empty line apart; each block is the
\* whitespace-trimmed GenerateProgramConfig text of its program, and the
\* text ends with exactly one line terminator.
C11_GroupLayout ==
    GroupRendered =>
        LET lines == TextLines(out.text)
            n == Len(group.Programs)
            heads == LinesWith(lines, "[program:")
            empty == {i \in 1..Len(lines) : lines[i] = <<>>}
        IN /\ n >= 1
           /\ \E orders \in OrdersFor(group.Programs) :
                  out.text = <<"[group:">> \o group.Name \o <<"]", NL, "programs=">>
                                 \o CommaNames(group.Programs) \o <<NL, NL>>
                                 \o TrimmedBlocks(group.Programs, orders, 1)
           /\ LineAt(lines, 1) = <<"[group:">> \o group.Name \o <<"]">>
           /\ KeyOf(LineAt(lines, 2)) = "programs="
           /\ LineAt(lines, 3) = <<>> /\ LineAt(lines, 4) = <<>>
           /\ Cardinality(heads) = n
           /\ 5 \in heads
           /\ empty = {3} \cup {i - 1 : i \in heads}
           /\ out.text[Len(out.text)] = NL
           /\ out.text[Len(out.text) - 1] # NL

C11_Witness ==
    /\ GroupRendered
    /\ group.Programs = <<1, 2>>
    /\ heap[1].ProcessName.isSet
    /\ heap[1].ProcessName.Value = Blank
    /\ TrimSpace(GenerateProgramConfig(heap, 1, <<>>).text) \o <<NL>>
           # GenerateProgramConfig(heap, 1, <<>>).text

\* the pointer leads to an object that GenerateProgramConfig accepts: the
\* four required strings are non-empty and a set AutoRestart holds a bool or
\* a string
Renders(p) ==
    /\ p \in Refs
    /\ \A f \in RequiredFields : heap[p][f] # <<>>
    /\ heap[p].AutoRestart.isSet => heap[p].AutoRestart.Value.type \in {"bool", "string"}

\* the caller has called GenerateGroupConfig(group) on an allocated group
GroupCalled == out.op = "GenerateGroupConfig" /\ ~group.isNil

\* C12 as stated: GenerateGroupConfig returns no text when the name of the
\* group is empty or when its program sequence is empty; NewGroupConfig
\* panics on an empty name; with a non-empty name and at least one program
\* that renders, GenerateGroupConfig succeeds.
C12_SucceedsWithOneValidProgram ==
    /\ (GroupCalled /\ (group.Name = <<>> \/ Len(group.Programs) = 0))
           => (out.status = "panic" /\ out.text = <<>>)
    /\ (out.op = "NewGroupConfig" /\ out.args[1] = <<>>) => out.status = "panic"
    /\ (GroupCalled /\ group.Name # <<>>
           /\ \E i \in 1..Len(group.Programs) : Renders(group.Programs[i]))
           => out.status = "ok"

\* C12 amended: GenerateGroupConfig returns no text when the name of the
\* group is empty or when its program sequence is empty; NewGroupConfig
\* panics on an empty name; with a non-empty name and a non-empty sequence
\* whose programs all render, GenerateGroupConfig succeeds and returns text.
C12_SucceedsWhenAllProgramsRender ==
    /\ (GroupCalled /\ (group.Name = <<>> \/ Len(group.Programs) = 0))
           => (out.status = "panic" /\ out.text = <<>>)
    /\ (out.op = "NewGroupConfig" /\ out.args[1] = <<>>) => out.status = "panic"
    /\ (GroupCalled /\ group.Name # <<>> /\ Len(group.Programs) >= 1
           /\ \A i \in 1..Len(group.Programs) : Renders(group.Programs[i]))
           => (out.status = "ok" /\ out.text # <<>>)

C12_Witness ==
    /\ GroupCalled
    /\ out.status = "panic"
    /\ group.Name = <<>>
    /\ Len(group.Programs) = 2
    /\ \A i \in 1..Len(group.Programs) : Renders(group.Programs[i])

\* the number of lines of a complete rendering of object c
ExpectedLines(c) ==
    6 + Cardinality(UNION {KeysOf(f) : f \in {g \in Fields :
                               /\ c[g].isSet
                               /\ g = "Environment" => EnvLen(c) > 0}})

RECURSIVE ExpectedGroupLines(_)
\* the number of lines of a complete rendering of a group of these programs
ExpectedGroupLines(programs) ==
    IF Len(programs) = 0 THEN 3
    ELSE 1 + ExpectedLines(heap[programs[1]]) + ExpectedGroupLines(Tail(programs))

\* the text is whole: it ends with a line terminator and has n lines
Complete(text, n) ==
    /\ Len(text) > 0
    /\ text[Len(text)] = NL
    /\ Len(TextLines(text)) = n

\* as Renders, with every AutoRestart value of another type counted as a
\* failure, set or not
RendersUnlessOtherType(p) ==
    /\ p \in Refs
    /\ \A f \in RequiredFields : heap[p][f] # <<>>
    /\ heap[p].AutoRestart.Value.type \in {"bool", "string"}

\* both renderers return either nothing or the whole text, and they return
\* nothing exactly when R fails for the program or for a member program
AllOrNothing(R(_)) ==
    /\ (out.op = "GenerateProgramConfig" /\ out.ref \in Refs)
           => IF R(out.ref)
              THEN /\ out.status = "ok"
                   /\ Complete(out.text, ExpectedLines(heap[out.ref]))
                   /\ LineAt(TextLines(out.text), 1)
                          = <<"[program:">> \o heap[out.ref].Name \o <<"]">>
              ELSE out.status = "panic" /\ out.text = <<>>
    /\ (GroupCalled /\ group.Name # <<>> /\ Len(group.Programs) >= 1
           /\ \A i \in 1..Len(group.Programs) : group.Programs[i] \in Refs)
           => IF \A i \in 1..Len(group.Programs) : R(group.Programs[i])
              THEN /\ out.status = "ok"
                   /\ Complete(out.text, ExpectedGroupLines(group.Programs))
                   /\ Cardinality(LinesWith(TextLines(out.text), "[program:"))
                          = Len(group.Programs)
              ELSE out.status = "panic" /\ out.text = <<>>

\* C13 as stated: GenerateProgramConfig fails when one of Name, Root,
\* UserName, SlogRoot is empty or when AutoRestart holds a value that is
\* neither bool nor string, GenerateGroupConfig fails when a member fails;
\* a failing call hands over no text, every other call the whole text.
C13_FailsOnAnyOtherTypeValue == AllOrNothing(RendersUnlessOtherType)

\* C13 amended: GenerateProgramConfig fails when one of Name, Root,
\* UserName, SlogRoot is empty or when AutoRestart is set and holds a value
\* that is neither bool nor string, GenerateGroupConfig fails when a member
\* fails; a failing call hands over no text, every other call the whole
\* text.
C13_AllOrNothing == AllOrNothing(Renders)

C13_Witness ==
    /\ GroupCalled
    /\ out.status = "panic"
    /\ out.text = <<>>
    /\ group.Name # <<>>
    /\ Len(group.Programs) = 2
    /\ Renders(group.Programs[1])
    /\ group.Programs[2] \in Refs
    /\ \A f \in RequiredFields : heap[group.Programs[2]][f] # <<>>
    /\ heap[group.Programs[2]].AutoRestart.isSet
    /\ heap[group.Programs[2]].AutoRestart.Value.type = "int"

\* the optional field each chained setter writes
FieldOf(op) ==
    CASE op = "WithAutoStart" -> "AutoStart"
      [] op = "WithAutoRestart" -> "AutoRestart"
      [] op = "WithAutoRestartMode" -> "AutoRestart"
      [] op = "WithStartRetries" -> "StartRetries"
      [] op = "WithStartSecs" -> "StartSecs"
      [] op = "WithLogMaxBytes" -> "LogMaxBytes"
      [] op = "WithLogBackups" -> "LogBackups"
      [] op = "WithRedirectStderr" -> "RedirectStderr"
      [] op = "WithStopAsGroup" -> "StopAsGroup"
      [] op = "WithKillAsGroup" -> "KillAsGroup"
      [] op = "WithStopWaitSecs" -> "StopWaitSecs"
      [] op = "WithStopSignal" -> "StopSignal"
      [] op = "WithPriority" -> "Priority"
      [] op = "WithEnvironment" -> "Environment"
      [] op = "WithExitCodes" -> "ExitCodes"
      [] op = "WithNumProcs" -> "NumProcs"
      [] op = "WithProcessName" -> "ProcessName"

SetterOps ==
    {"WithAutoStart", "WithAutoRestart", "WithAutoRestartMode", "WithStartRetries",
     "WithStartSecs", "WithLogMaxBytes", "WithLogBackups", "WithRedirectStderr",
     "WithStopAsGroup", "WithKillAsGroup", "WithStopWaitSecs", "WithStopSignal",
     "WithPriority", "WithEnvironment", "WithExitCodes", "WithNumProcs",
     "WithProcessName"}

\* what Get returns after a setter call with this argument (the mode string
\* of WithAutoRestartMode is stored as an any)
StoredArg(o) ==
    IF o.op = "WithAutoRestartMode"
    THEN [type |-> "string", b |-> FALSE, s |-> o.args[1]]
    ELSE o.args[1]

BoolText(b) == IF b THEN <<"true">> ELSE <<"false">>

RECURSIVE IntsText(_)
IntsText(ns) ==
    IF Len(ns) = 0 THEN <<>>
    ELSE <<ToString(ns[1])>>
             \o (IF Len(ns) = 1 THEN <<>> ELSE <<",">> \o IntsText(Tail(ns)))

\* the texts a value of field f can be written as after the label
TextsOf(f, v) ==
    CASE f \in {"AutoStart", "RedirectStderr", "StopAsGroup", "KillAsGroup"}
             -> {BoolText(v)}
      [] f = "AutoRestart" -> {IF v.type = "bool" THEN BoolText(v.b) ELSE v.s}
      [] f \in {"StartRetries", "StartSecs", "LogBackups", "StopWaitSecs", "Priority",
                "NumProcs"} -> {<<ToString(v)>>}
      [] f \in {"LogMaxBytes", "StopSignal", "ProcessName"} -> {v}
      [] f = "ExitCodes" -> {IntsText(v)}
      [] f = "Environment" -> {combineSsMap(v, <<",">>, o) : o \in RangeOrders(v)}

\* in these lines each label of field f stands on exactly one line, and the
\* line holds value v
ShownOnceWith(lines, f, v) ==
    \A k \in KeysOf(f) :
        /\ Cardinality(LinesWith(lines, k)) = 1
        /\ \A i \in LinesWith(lines, k) : \E t \in TextsOf(f, v) : lines[i] = <<k, " ">> \o t

\* C14 as stated: after calls of one setter, Get returns the argument of the
\* most recent call and the field is set, and a rendering holds the line of
\* every field whose setter was called exactly once per label, with the
\* current value.
C14_EveryCallWinsEveryFieldShown ==
    /\ out.op \in SetterOps
           => (out.ref \in Refs
                  /\ heap[out.ref][FieldOf(out.op)].isSet
                  /\ heap[out.ref][FieldOf(out.op)].Value = StoredArg(out))
    /\ Rendered
           => \A f \in Fields :
                  WasSet(out.ref, f)
                      => ShownOnceWith(TextLines(out.text), f, heap[out.ref][f].Value)

\* C14 amended: a setter call that returns leaves its argument as the value
\* Get returns, with isSet true; a field keeps value and flag until the next
\* returning call of its setter; a rendering holds the line of every set
\* field (Environment only with a non-empty mapping) exactly once per label,
\* with the current value; and a rendering that follows a setter call which
\* overwrote an earlier argument holds the new argument and not the earlier
\* one.
C14_LastWriteWins ==
    /\ []((out.op \in SetterOps /\ out.status = "ok")
              => (heap[out.ref][FieldOf(out.op)].isSet
                     /\ heap[out.ref][FieldOf(out.op)].Value = StoredArg(out)))
    /\ [][\A p \in Refs : \A f \in Fields :
              ~(out'.op \in SetterOps /\ out'.status = "ok" /\ out'.ref = p
                    /\ FieldOf(out'.op) = f)
                  => heap'[p][f] = heap[p][f]]_vars
    /\ [](Rendered
              => \A f \in Fields :
                     (WasSet(out.ref, f) /\ (f = "Environment" => EnvLen(heap[out.ref]) > 0))
                         => ShownOnceWith(TextLines(out.text), f, heap[out.ref][f].Value))
    /\ [][(out.op \in SetterOps /\ out.status = "ok" /\ out.again
               /\ out'.op = "GenerateProgramConfig" /\ out'.ref = out.ref
               /\ FieldOf(out.op) # "Environment")
              => LET f == FieldOf(out.op)
                     lines == TextLines(out'.text)
                 IN /\ out'.status = "ok"
                    /\ ShownOnceWith(lines, f, StoredArg(out))
                    /\ \A k \in KeysOf(f) :
                           \A t \in TextsOf(f, out.prev[1]) \ TextsOf(f, StoredArg(out)) :
                               \A i \in 1..Len(lines) : lines[i] # <<k, " ">> \o t]_vars

C14_Witness ==
    /\ out.op = "WithLogBackups"
    /\ out.status = "ok"
    /\ out.again
    /\ out.prev[1] # out.args[1]
    /\ heap[out.ref].LogBackups.Value = out.args[1]

\* C15: a call of GenerateProgramConfig or GenerateGroupConfig, successful or
\* not, leaves every field of every ProgramConfig and the name and program
\* sequence of the group as they were; and the text of a rendering, also of
\* a repeated one, shows exactly the fields whose setters ran before it,
\* with their current values.
C15_RenderersNeverMutate ==
    /\ [][out'.op \in {"GenerateProgramConfig", "GenerateGroupConfig"}
              => (heap' = heap /\ group' = group /\ called' = called)]_vars
    /\ [](Rendered
              => \A f \in Fields :
                     IF WasSet(out.ref, f) /\ (f = "Environment" => EnvLen(heap[out.ref]) > 0)
                     THEN ShownOnceWith(TextLines(out.text), f, heap[out.ref][f].Value)
                     ELSE FieldAbsent(TextLines(out.text), f))

C15_Witness ==
    /\ Rendered
    /\ out.again
    /\ heap[out.ref].Environment.isSet
    /\ heap[out.ref].Environment.Value.isNil
    /\ Len(group.Programs) = 2

\* the labels of the 24 lines of the renderer, in the order of its statements
FixedOrder ==
    <<"[program:", "user            =", "directory       =", "command         =",
      "environment     =", "autostart       =", "autorestart     =",
      "startretries    =", "startsecs       =", "stdout_logfile  =",
      "stdout_logfile_maxbytes =", "stdout_logfile_backups =", "stderr_logfile  =",
      "stderr_logfile_maxbytes =", "stderr_logfile_backups =", "redirect_stderr =",
      "stopasgroup     =", "stopwaitsecs    =", "killasgroup     =",
      "stopsignal      =", "priority        =", "exitcodes       =",
      "numprocs        =", "process_name    =">>

\* the place of a label in the fixed order, 0 for a foreign label
PositionOf(key) ==
    IF \E i \in 1..Len(FixedOrder) : FixedOrder[i] = key
    THEN CHOOSE i \in 1..Len(FixedOrder) : FixedOrder[i] = key
    ELSE 0

FollowsFixedOrder(lines) ==
    /\ \A i \in 1..Len(lines) : PositionOf(KeyOf(lines[i])) > 0
    /\ \A i, j \in 1..Len(lines) :
           i < j => PositionOf(KeyOf(lines[i])) < PositionOf(KeyOf(lines[j]))

\* the optional fields in the order of their declaration
FieldSeq ==
    <<"Environment", "AutoStart", "AutoRestart", "StartRetries", "StartSecs",
      "LogMaxBytes", "LogBackups", "RedirectStderr", "StopAsGroup", "StopWaitSecs",
      "KillAsGroup", "StopSignal", "Priority", "ExitCodes", "NumProcs", "ProcessName">>

RECURSIVE SetInOrder(_, _, _)
\* object c after the setters of the set fields of object src, called from
\* the i-th field of FieldSeq on in the order of FieldSeq, each with the
\* value src holds
SetInOrder(c, src, i) ==
    IF i > Len(FieldSeq) THEN c
    ELSE LET f == FieldSeq[i]
         IN SetInOrder(IF src[f].isSet THEN [c EXCEPT ![f] = Set(@, src[f].Value)] ELSE c,
                       src, i + 1)

\* a second object with the required fields of p that received the setter
\* calls of p in declaration order
Twin(p) ==
    SetInOrder(ProgramConfig(heap[p].Name, heap[p].Root, heap[p].UserName,
                             heap[p].SlogRoot), heap[p], 1)

\* C16: the lines of a rendering are a subsequence of the fixed order of 24
\* labels, and an object with the same required fields that received the
\* same setter calls in another order renders to the same text.
C16_FixedOrderSameText ==
    Rendered =>
        /\ FollowsFixedOrder(TextLines(out.text))
        /\ \A order \in RangeOrders(Get(Twin(out.ref).Environment)) :
               GenerateProgramConfig(<<Twin(out.ref)>>, 1, order).text = out.text

\* what holds whatever the order of the environment pairs: the fixed order
\* of the lines, the same object state after the same calls in another
\* order, and the same text for one of the range orders
FixedOrderUpToRangeOrder ==
    Rendered =>
        /\ FollowsFixedOrder(TextLines(out.text))
        /\ Twin(out.ref) = heap[out.ref]
        /\ \E order \in RangeOrders(Get(Twin(out.ref).Environment)) :
               GenerateProgramConfig(<<Twin(out.ref)>>, 1, order).text = out.text

\* C17: a With* call that returns hands back the pointer it was called on,
\* allocates nothing, stores its argument in its own optional field and
\* marks it set, and leaves the four required fields, the value and isSet
\* of every other optional field, every other object and the group
\* unchanged; WithAutoRestart and WithAutoRestartMode write AutoRestart.
C17_SettersChangeOnlyOwnField ==
    [][(out'.op \in SetterOps /\ out'.status = "ok")
          => /\ out'.ref \in Refs
             /\ Len(heap') = Len(heap)
             /\ \A q \in Refs : \A f \in RequiredFields : heap'[q][f] = heap[q][f]
             /\ \A q \in Refs : \A f \in Fields :
                    (q # out'.ref \/ f # FieldOf(out'.op)) => heap'[q][f] = heap[q][f]
             /\ heap'[out'.ref][FieldOf(out'.op)]
                    = [Value |-> StoredArg(out'), isSet |-> TRUE]
             /\ group' = group]_vars

C17_Witness ==
    /\ out.op = "WithAutoRestartMode"
    /\ out.status = "ok"
    /\ out.again
    /\ out.prev[1].type = "bool"
    /\ heap[out.ref].Priority.isSet
    /\ heap[out.ref].Priority.Value = 1

AutoRestartOps == {"WithAutoRestart", "WithAutoRestartMode"}

\* the autorestart line of a call: true or false for WithAutoRestart, the
\* mode itself for WithAutoRestartMode
AutoRestartLine(o) ==
    <<"autorestart     =", " ">>
        \o (IF o.op = "WithAutoRestart" THEN BoolText(o.args[1].b) ELSE o.args[1])

\* C18: WithAutoRestart and WithAutoRestartMode write one field: a rendering
\* that follows a returning call of either holds exactly one autorestart
\* line, with true or false after WithAutoRestart and the mode string after
\* WithAutoRestartMode; no other call changes the field; and with the
\* setters alone the field never holds another type, so that no rendering
\* takes the invalid-type branch.
C18_AutoRestartSharedField ==
    /\ [][(out.op \in AutoRestartOps /\ out.status = "ok"
               /\ out'.op = "GenerateProgramConfig" /\ out'.ref = out.ref)
              => /\ out'.status = "ok"
                 /\ \A i \in LinesWith(TextLines(out'.text), "autorestart     =") :
                        TextLines(out'.text)[i] = AutoRestartLine(out)
                 /\ Cardinality(LinesWith(TextLines(out'.text), "autorestart     =")) = 1]_vars
    /\ [][\A p \in Refs :
              ~(out'.op \in AutoRestartOps /\ out'.status = "ok" /\ out'.ref = p)
                  => heap'[p].AutoRestart = heap[p].AutoRestart]_vars
    /\ [](Rendered
              => Cardinality(LinesWith(TextLines(out.text), "autorestart     ="))
                     = IF WasSet(out.ref, "AutoRestart") THEN 1 ELSE 0)
    /\ [](\A p \in Refs : heap[p].AutoRestart.Value.type \in {"bool", "string"})
    /\ []((out.op = "GenerateProgramConfig" /\ out.ref \in Refs) => out.status = "ok")

C18_Witness ==
    /\ out.op = "WithAutoRestart"
    /\ out.status = "ok"
    /\ out.again
    /\ out.prev[1].type = "string"
    /\ out.prev[1].s = <<"true">>
    /\ out.args[1].b = FALSE

\* the program blocks of a group text, each as its lines: the runs of lines
\* between the empty lines, after the group header and its two empty lines
BlocksOf(text) ==
    LET runs == SplitOn(TextLines(text), <<>>) IN SubSeq(runs, 3, Len(runs))

InGroup(p) == \E i \in 1..Len(group.Programs) : group.Programs[i] = p

\* C19 as stated, for the program blocks: each block of a GenerateGroupConfig
\* text has the very lines of the GenerateProgramConfig text of the object
\* as it is at the time of the call.
C19_BlockEqualsRendering ==
    GroupRendered
        => LET blocks == BlocksOf(out.text)
           IN /\ Len(blocks) = Len(group.Programs)
              /\ \A i \in 1..Len(group.Programs) :
                     \E order \in OrdersOf(heap, group.Programs[i]) :
                         blocks[i] = TextLines(GenerateProgramConfig(
                                         heap, group.Programs[i], order).text)

\* C19 amended: AddProgram puts its argument behind the entries of the group
\* and leaves them and their order as they were, and no call takes an entry
\* away; each program block of a GenerateGroupConfig text is the
\* whitespace-trimmed GenerateProgramConfig text of the object as it is at
\* the time of the call; so a setter call on an object that is already in
\* the group shows in the block of that object in the next
\* GenerateGroupConfig.
C19_GroupHoldsReferences ==
    /\ [][out'.op = "AddProgram"
              => /\ Len(group'.Programs) = Len(group.Programs) + 1
                 /\ SubSeq(group'.Programs, 1, Len(group.Programs)) = group.Programs
                 /\ group'.Name = group.Name]_vars
    /\ [][out'.op # "NewGroupConfig"
              => /\ Len(group'.Programs) >= Len(group.Programs)
                 /\ SubSeq(group'.Programs, 1, Len(group.Programs)) = group.Programs]_vars
    /\ [](GroupRendered
              => LET blocks == BlocksOf(out.text)
                 IN /\ Len(blocks) = Len(group.Programs)
                    /\ \A i \in 1..Len(group.Programs) :
                           \E order \in OrdersOf(heap, group.Programs[i]) :
                               blocks[i] = TextLines(TrimSpace(GenerateProgramConfig(
                                               heap, group.Programs[i], order).text)
                                               \o <<NL>>))
    /\ [][(out.op \in SetterOps /\ out.status = "ok" /\ InGroup(out.ref)
               /\ out'.op = "GenerateGroupConfig" /\ out'.status = "ok"
               /\ (out.op = "WithEnvironment" => MapLen(out.args[1]) > 0))
              => LET blocks == BlocksOf(out'.text)
                     shown == {TrimRight(<<k, " ">> \o t) :
                                   k \in KeysOf(FieldOf(out.op)),
                                   t \in TextsOf(FieldOf(out.op), StoredArg(out))}
                 IN /\ Len(blocks) = Len(group.Programs)
                    /\ \A i \in 1..Len(group.Programs) :
                           group.Programs[i] = out.ref
                               => \E j \in 1..Len(blocks[i]) : blocks[i][j] \in shown]_vars

C19_Witness ==
    /\ out.op = "WithProcessName"
    /\ out.status = "ok"
    /\ group.Programs = <<2, 1>>
    /\ out.ref = 1
    /\ out.args[1] = <<"%(program_name)s">>
====
